---- MODULE Spec2Model ----
(***************************************************************************)
(* Shared plugin utilities of agent-orchestrator: shellEscape,             *)
(* escapeAppleScript, validateUrl and readLastJsonlEntry.                  *)
(*                                                                         *)
(* A string is a sequence of one-character strings.  The three synchronous *)
(* functions are operators, exercised by SpecStr; readLastJsonlEntry is a  *)
(* process of Spec, interleaved with an appending writer, and SpecConc     *)
(* runs several calls on the same file.                                    *)
(*                                                                         *)
(* The file is a sequence of bytes, each an ASCII character, so that the   *)
(* UTF-8 decoding of the chunk is the chunk.  A call takes one step per    *)
(* await (open, stat, read, close); what runs between two awaits is part   *)
(* of the step.  Each of the four file operations may reject.              *)
(***************************************************************************)
EXTENDS Integers, Sequences, FiniteSets, TLC

VARIABLES
    fn, arg, label, out,         \* SpecStr: function applied, inputs, output
    file, mtime,                 \* the log file: its bytes and its mtime
    pc,                          \* per call: the await the call is at
    fh,                          \* per call: the FileHandle ("none", "open", "closed")
    size, statMtime,             \* per call: fileStat.size, fileStat.mtime
    reads,                       \* per call: the fh.read requests issued
    completion,                  \* per call: the value the try/catch completed with
    outcome,                     \* per call: how the promise settled
    closeCalls,                  \* per call: the number of fh.close() calls
    failed,                      \* history: the file operations that failed
    hit                          \* history: the index of the line the scan returned at

strVars == <<fn, arg, label, out>>
fileVars == <<file, mtime>>
callVars == <<pc, fh, size, statMtime, reads, completion, outcome, closeCalls, failed, hit>>
vars == <<strVars, fileVars, callVars>>

----------------------------------------------------------------------------
(* Characters *)

SQ == "'"
DQ == "\""
BS == "\\"
NL == "\n"
SP == " "
TAB == "\t"
CR == "\r"

(* Bounds of the string inputs *)
MaxLen == 3
MaxTail == 1

Alphabet == {SQ, DQ, BS, NL, SP, "n"}

RECURSIVE StrsOf(_, _)
StrsOf(A, n) ==
    IF n = 0 THEN {<<>>}
    ELSE LET S == StrsOf(A, n - 1)
         IN  S \cup {Append(s, c) : s \in {t \in S : Len(t) = n - 1}, c \in A}

----------------------------------------------------------------------------
(* String.prototype.replace with a global one-character pattern: every     *)
(* occurrence of ch, left to right, becomes rep.                           *)

RECURSIVE ReplaceAll(_, _, _)
ReplaceAll(s, ch, rep) ==
    IF s = <<>> THEN <<>>
    ELSE (IF Head(s) = ch THEN rep ELSE <<Head(s)>>) \o ReplaceAll(Tail(s), ch, rep)

(* String.prototype.startsWith *)
startsWith(s, p) == Len(s) >= Len(p) /\ SubSeq(s, 1, Len(p)) = p

(* faulty variant: the quote is escaped but quoting is not reopened *)
shellEscapeNoReopen(a) == <<SQ>> \o ReplaceAll(a, SQ, <<SQ, BS, SQ>>) \o <<SQ>>

shellEscape(a) == <<SQ>> \o ReplaceAll(a, SQ, <<SQ, BS, SQ, SQ>>) \o <<SQ>>

(* faulty variant: the two substitutions in the wrong order *)
escapeAppleScriptQuotesFirst(s) == ReplaceAll(ReplaceAll(s, DQ, <<BS, DQ>>), BS, <<BS, BS>>)

escapeAppleScript(s) == ReplaceAll(ReplaceAll(s, BS, <<BS, BS>>), DQ, <<BS, DQ>>)

Https == <<"h", "t", "t", "p", "s", ":", "/", "/">>
Http == <<"h", "t", "t", "p", ":", "/", "/">>

Message(u, l) ==
    <<"[">> \o l
    \o <<"]", " ", "I", "n", "v", "a", "l", "i", "d", " ", "u", "r", "l", ":", " ",
         "m", "u", "s", "t", " ", "b", "e", " ", "h", "t", "t", "p", "(", "s", ")",
         ",", " ", "g", "o", "t", " ", DQ>>
    \o u \o <<DQ>>

(* faulty variant: only the https prefix is accepted *)
validateUrlHttpsOnly(u, l) ==
    IF ~startsWith(u, Https)
    THEN [threw |-> TRUE, message |-> Message(u, l)]
    ELSE [threw |-> FALSE, message |-> <<>>]

(* validateUrl: the outcome of the call, a thrown Error with its message   *)
(* or a normal return.                                                     *)
validateUrl(u, l) ==
    IF ~startsWith(u, Https) /\ ~startsWith(u, Http)
    THEN [threw |-> TRUE, message |-> Message(u, l)]
    ELSE [threw |-> FALSE, message |-> <<>>]

----------------------------------------------------------------------------
(* The readers the escapers are written for. *)

(* POSIX shell, restricted to the rules of single quoting: text between    *)
(* single quotes is literal, backslash-quote outside quotes is a literal   *)
(* quote, adjacent segments concatenate.  Anything else outside quotes     *)
(* (a blank ends the token, another character starts another kind of      *)
(* word) or an unterminated quote is not one single-quoted token.          *)
RECURSIVE ShRead(_, _, _, _)
ShRead(w, i, quoted, acc) ==
    IF i > Len(w) THEN [ok |-> ~quoted, val |-> acc]
    ELSE IF quoted
         THEN IF w[i] = SQ THEN ShRead(w, i + 1, FALSE, acc)
              ELSE ShRead(w, i + 1, TRUE, Append(acc, w[i]))
         ELSE IF w[i] = SQ THEN ShRead(w, i + 1, TRUE, acc)
              ELSE IF w[i] = BS /\ i < Len(w) /\ w[i + 1] = SQ
                   THEN ShRead(w, i + 2, FALSE, Append(acc, SQ))
                   ELSE [ok |-> FALSE, val |-> acc]

ShellToken(w) == ShRead(w, 1, FALSE, <<>>)

(* AppleScript string literal: lit[1] is the opening quote.  Returns the   *)
(* value and the position of the terminating quote (0 when unterminated).  *)
Unescape(c) == CASE c = "n" -> NL [] c = "t" -> TAB [] c = "r" -> CR [] OTHER -> c

RECURSIVE AsRead(_, _, _)
AsRead(lit, i, acc) ==
    IF i > Len(lit) THEN [end |-> 0, val |-> acc]
    ELSE IF lit[i] = DQ THEN [end |-> i, val |-> acc]
    ELSE IF lit[i] = BS
         THEN IF i < Len(lit) THEN AsRead(lit, i + 2, Append(acc, Unescape(lit[i + 1])))
              ELSE [end |-> 0, val |-> acc]
         ELSE AsRead(lit, i + 1, Append(acc, lit[i]))

AppleScriptLiteral(lit) ==
    IF lit # <<>> /\ lit[1] = DQ THEN AsRead(lit, 2, <<>>) ELSE [end |-> 0, val |-> <<>>]

(* s occurs in t as a contiguous substring *)
Contains(t, s) == \E i \in 0..(Len(t) - Len(s)) : SubSeq(t, i + 1, i + Len(s)) = s

----------------------------------------------------------------------------
(* Small helpers over positions *)

MinOf(S) == CHOOSE x \in S : \A y \in S : x <= y

(* the first position of i..n at which P holds, n + 1 when there is none *)
First(i, n, P(_)) ==
    CHOOSE j \in i..(n + 1) : (j = n + 1 \/ P(j)) /\ \A k \in i..(j - 1) : ~P(k)

(* the last position of i..n at which P holds, i - 1 when there is none *)
Last(i, n, P(_)) ==
    n - (CHOOSE d \in 0..(n - i + 1) :
            (d = n - i + 1 \/ P(n - d)) /\ \A e \in 0..(d - 1) : ~P(n - e))

----------------------------------------------------------------------------
(* JSON.parse, on the subset of JSON the files of the model are written    *)
(* in: objects, arrays, strings with the one-character escapes (no \u),    *)
(* numbers, null, true, false, and JSON white space.  A value is           *)
(* summarised as [k, s, t]: its kind, its text when it is a string, and,   *)
(* when it is an object, its member "type" when that is a string (the last *)
(* of duplicate members wins).                                             *)

JsonWs == {SP, TAB, NL, CR}
Digits == {"0", "1", "2", "3", "4", "5", "6", "7", "8", "9"}
EscapeChars == {DQ, BS, "/", "b", "f", "n", "r", "t"}
TypeKey == <<"t", "y", "p", "e">>

FF == "\f"
BSPC == "<backspace>"       \* U+0008, which a TLA+ string cannot spell

NoType == [str |-> FALSE, val |-> <<>>]
StrType(s) == [str |-> TRUE, val |-> s]
JVal(k, s, t) == [k |-> k, s |-> s, t |-> t]
ParseFail == [ok |-> FALSE, pos |-> 0, val |-> JVal("none", <<>>, NoType)]
ParseOk(p, v) == [ok |-> TRUE, pos |-> p, val |-> v]

(* first position at or after i that holds no white space (Len(s) + 1 at the end) *)
SkipWs(s, i) == First(i, Len(s), LAMBDA j : s[j] \notin JsonWs)

(* first position at or after i that holds no digit *)
DigitsEnd(s, i) == First(i, Len(s), LAMBDA j : s[j] \notin Digits)

(* the backslashes that immediately precede position j, after position i, are even in number *)
EvenBackslashes(s, i, j) ==
    (j - 1 - Last(i + 1, j - 1, LAMBDA k : s[k] # BS)) % 2 = 0

JsonUnescape(c) ==
    CASE c = "n" -> NL [] c = "t" -> TAB [] c = "r" -> CR
      [] c = "b" -> BSPC [] c = "f" -> FF [] OTHER -> c

RECURSIVE DecodeEscapes(_)
DecodeEscapes(c) ==
    IF c = <<>> THEN <<>>
    ELSE IF Head(c) = BS
         THEN <<JsonUnescape(c[2])>> \o DecodeEscapes(SubSeq(c, 3, Len(c)))
         ELSE <<Head(c)>> \o DecodeEscapes(Tail(c))

(* s[i] is the opening quote and close the position of the closing one *)
ValidString(s, i, close) ==
    \A k \in (i + 1)..(close - 1) :
        /\ s[k] \notin {TAB, NL, CR, BSPC, FF}
        /\ (s[k] = BS /\ EvenBackslashes(s, i, k)) => s[k + 1] \in EscapeChars

StringText(content) ==
    IF \E k \in 1..Len(content) : content[k] = BS THEN DecodeEscapes(content)
    ELSE content

StringUpTo(s, i, close) ==
    IF close > Len(s) \/ ~ValidString(s, i, close) THEN ParseFail
    ELSE ParseOk(close + 1, JVal("str", StringText(SubSeq(s, i + 1, close - 1)), NoType))

ParseString(s, i) ==
    StringUpTo(s, i, First(i + 1, Len(s), LAMBDA j : s[j] = DQ /\ EvenBackslashes(s, i, j)))

(* number = [-] int [frac] [exp]; each part returns the position after it, *)
(* 0 when the number is malformed                                          *)
IntPart(s, i) ==
    IF i > Len(s) \/ s[i] \notin Digits THEN 0
    ELSE IF s[i] = "0" THEN i + 1 ELSE DigitsEnd(s, i)

DigitsFrom(s, i) == IF DigitsEnd(s, i) > i THEN DigitsEnd(s, i) ELSE 0

FracPart(s, i) ==
    IF i = 0 THEN 0
    ELSE IF i <= Len(s) /\ s[i] = "." THEN DigitsFrom(s, i + 1) ELSE i

ExpPart(s, i) ==
    IF i = 0 THEN 0
    ELSE IF i <= Len(s) /\ s[i] \in {"e", "E"}
         THEN (IF i < Len(s) /\ s[i + 1] \in {"+", "-"} THEN DigitsFrom(s, i + 2)
               ELSE DigitsFrom(s, i + 1))
         ELSE i

NumberUpTo(end) == IF end = 0 THEN ParseFail ELSE ParseOk(end, JVal("num", <<>>, NoType))

ParseNumber(s, i) ==
    NumberUpTo(ExpPart(s, FracPart(s, IntPart(s, IF s[i] = "-" THEN i + 1 ELSE i))))

ParseLiteral(s, i, word, kind) ==
    IF i + Len(word) - 1 <= Len(s) /\ SubSeq(s, i, i + Len(word) - 1) = word
    THEN ParseOk(i + Len(word), JVal(kind, <<>>, NoType))
    ELSE ParseFail

(* the "type" of the object once member key: v is added to it *)
TypeWith(key, v, typ) ==
    IF key.val.s = TypeKey
    THEN (IF v.val.k = "str" THEN StrType(v.val.s) ELSE NoType)
    ELSE typ

RECURSIVE ParseValue(_, _), ParseMembers(_, _, _), MemberValue(_, _, _), MemberEnd(_, _, _, _),
          MemberNext(_, _, _), ParseElements(_, _), ElementNext(_, _)

(* j is the position of a member's key; typ is the "type" seen so far *)
ParseMembers(s, j, typ) ==
    IF j > Len(s) \/ s[j] # DQ THEN ParseFail
    ELSE MemberValue(s, ParseString(s, j), typ)

(* key is the parsed key: a colon and a value follow *)
MemberValue(s, key, typ) ==
    IF ~key.ok \/ SkipWs(s, key.pos) > Len(s) \/ s[SkipWs(s, key.pos)] # ":" THEN ParseFail
    ELSE MemberEnd(s, key, ParseValue(s, SkipWs(s, SkipWs(s, key.pos) + 1)), typ)

(* v is the parsed value of the member *)
MemberEnd(s, key, v, typ) ==
    IF ~v.ok THEN ParseFail
    ELSE MemberNext(s, SkipWs(s, v.pos), TypeWith(key, v, typ))

(* d is the position after the member: a comma or the closing brace *)
MemberNext(s, d, typ) ==
    IF d > Len(s) THEN ParseFail
    ELSE IF s[d] = "}" THEN ParseOk(d + 1, JVal("obj", <<>>, typ))
    ELSE IF s[d] = "," THEN ParseMembers(s, SkipWs(s, d + 1), typ)
    ELSE ParseFail

(* j is the position of an element *)
ParseElements(s, j) == ElementNext(s, ParseValue(s, j))

(* v is the parsed element: a comma or the closing bracket follows *)
ElementNext(s, v) ==
    IF ~v.ok \/ SkipWs(s, v.pos) > Len(s) THEN ParseFail
    ELSE IF s[SkipWs(s, v.pos)] = "]"
         THEN ParseOk(SkipWs(s, v.pos) + 1, JVal("arr", <<>>, NoType))
    ELSE IF s[SkipWs(s, v.pos)] = ","
         THEN ParseElements(s, SkipWs(s, SkipWs(s, v.pos) + 1))
    ELSE ParseFail

(* j is the position after the opening brace *)
ObjectFrom(s, j) ==
    IF j <= Len(s) /\ s[j] = "}" THEN ParseOk(j + 1, JVal("obj", <<>>, NoType))
    ELSE ParseMembers(s, j, NoType)

(* j is the position after the opening bracket *)
ArrayFrom(s, j) ==
    IF j <= Len(s) /\ s[j] = "]" THEN ParseOk(j + 1, JVal("arr", <<>>, NoType))
    ELSE ParseElements(s, j)

(* i is the position of the value's first character *)
ParseValue(s, i) ==
    IF i > Len(s) THEN ParseFail
    ELSE IF s[i] = "{" THEN ObjectFrom(s, SkipWs(s, i + 1))
    ELSE IF s[i] = "[" THEN ArrayFrom(s, SkipWs(s, i + 1))
    ELSE IF s[i] = DQ THEN ParseString(s, i)
    ELSE IF s[i] = "-" \/ s[i] \in Digits THEN ParseNumber(s, i)
    ELSE IF s[i] = "n" THEN ParseLiteral(s, i, <<"n", "u", "l", "l">>, "null")
    ELSE IF s[i] = "t" THEN ParseLiteral(s, i, <<"t", "r", "u", "e">>, "bool")
    ELSE IF s[i] = "f" THEN ParseLiteral(s, i, <<"f", "a", "l", "s", "e">>, "bool")
    ELSE ParseFail

(* the whole text is one value, white space around it allowed *)
WholeText(text, v) ==
    IF v.ok /\ SkipWs(text, v.pos) = Len(text) + 1 THEN v ELSE ParseFail

(* JSON.parse(text): ok is FALSE where JSON.parse throws a SyntaxError *)
JsonParse(text) == WholeText(text, ParseValue(text, SkipWs(text, 1)))

----------------------------------------------------------------------------
(* readLastJsonlEntry *)

TAIL_READ_BYTES == 4096

Min(a, b) == IF a < b THEN a ELSE b

(* String.prototype.split("\n"): the pieces between the newlines, in order *)
RECURSIVE SortedSeq(_)
SortedSeq(S) == IF S = {} THEN <<>> ELSE <<MinOf(S)>> \o SortedSeq(S \ {MinOf(S)})

Pieces(chunk, cuts) ==
    [k \in 1..(Len(cuts) - 1) |-> SubSeq(chunk, cuts[k] + 1, cuts[k + 1] - 1)]

Split(chunk) ==
    Pieces(chunk, <<0>> \o SortedSeq({i \in 1..Len(chunk) : chunk[i] = NL})
                      \o <<Len(chunk) + 1>>)

(* String.prototype.trim, on the white space of the model *)
TrimWs == {SP, TAB, CR, NL, FF}

Trim(line) ==
    SubSeq(line, First(1, Len(line), LAMBDA k : line[k] \notin TrimWs),
                 Last(1, Len(line), LAMBDA k : line[k] \notin TrimWs))

(* typeof parsed === "object" *)
TypeofObject(v) == v.k \in {"obj", "arr", "null"}

(* the if of lines 74-76 on the value JSON.parse returned: a non-null,    *)
(* non-array object whose type is a string                                *)
HasStringType(parsed) ==
    /\ parsed.ok
    /\ TypeofObject(parsed.val) /\ parsed.val.k # "null" /\ parsed.val.k # "arr"
    /\ parsed.val.t.str

RECURSIVE ScanLines(_, _), ScanTrimmed(_, _, _), ScanParsed(_, _, _)

(* the for loop from index i (1-based) down: the type of the entry it      *)
(* returns at and the index of that line, or no type and 0                 *)
ScanLines(lines, i) ==
    IF i < 1 THEN [lastType |-> NoType, at |-> 0]
    ELSE IF lines[i] = <<>> THEN ScanLines(lines, i - 1)
    ELSE ScanTrimmed(lines, i, Trim(lines[i]))

ScanTrimmed(lines, i, trimmed) ==
    IF trimmed = <<>> THEN ScanLines(lines, i - 1)
    ELSE ScanParsed(lines, i, JsonParse(trimmed))

ScanParsed(lines, i, parsed) ==
    IF HasStringType(parsed) THEN [lastType |-> parsed.val.t, at |-> i]
    ELSE ScanLines(lines, i - 1)

(* faulty variant: the loop stops before index 0, the first line is never *)
(* looked at                                                              *)
ScanAllButFirst(lines) ==
    LET r == ScanLines(Tail(lines), Len(lines) - 1)
    IN  [lastType |-> r.lastType, at |-> IF r.at = 0 THEN 0 ELSE r.at + 1]

(* lines 64-86: the chunk decoded, split and scanned from its last line *)
ScanAll(lines) == ScanLines(lines, Len(lines))

ScanChunk(chunk) == ScanAll(Split(chunk))

(* The values a call completes with *)
Null == [isNull |-> TRUE, lastType |-> NoType, modifiedAt |-> 0]
Entry(t, m) == [isNull |-> FALSE, lastType |-> t, modifiedAt |-> m]

Pending == [kind |-> "pending", value |-> Null]
Returned(v) == [kind |-> "return", value |-> v]
Thrown == [kind |-> "throw", value |-> Null]

(* faulty variant: the read is not capped *)
ReadSizeWholeFile(sz) == sz

ReadSize(sz) == Min(TAIL_READ_BYTES, sz)
ReadPosition(sz) == sz - ReadSize(sz)

(* fh.read(buffer, 0, length, position) on the file as it is now: the     *)
(* bytes the file holds in that range, fewer only at the end of the file  *)
BytesRead(f, length, position) ==
    IF position >= Len(f) THEN 0 ELSE Min(length, Len(f) - position)

Chunk(f, length, position) ==
    SubSeq(f, position + 1, position + BytesRead(f, length, position))

(* Bounds of the tail reader *)
NumCalls == 2
MaxAppends == 2
MaxCut == 1

Calls == 1..NumCalls

(* fh = await open(filePath, "r"), or open rejects (ENOENT, EACCES, ...):  *)
(* the catch returns null and the finally finds fh undefined.              *)
Open(c) ==
    /\ pc[c] = "open"
    /\ \/ /\ fh' = [fh EXCEPT ![c] = "open"]
          /\ pc' = [pc EXCEPT ![c] = "stat"]
          /\ UNCHANGED <<completion, outcome, failed>>
       \/ /\ failed' = [failed EXCEPT ![c] = @ \cup {"open"}]
          /\ completion' = [completion EXCEPT ![c] = Returned(Null)]
          /\ outcome' = [outcome EXCEPT ![c] = Returned(Null)]
          /\ pc' = [pc EXCEPT ![c] = "done"]
          /\ UNCHANGED fh
    /\ UNCHANGED <<strVars, fileVars, size, statMtime, reads, closeCalls, hit>>

(* faulty variant: the size-0 return leaves the function without the      *)
(* finally                                                                *)
StatReturnsWithoutClose(c) ==
    /\ pc[c] = "stat"
    /\ \/ /\ size' = [size EXCEPT ![c] = Len(file)]
          /\ statMtime' = [statMtime EXCEPT ![c] = mtime]
          /\ IF Len(file) = 0
             THEN /\ completion' = [completion EXCEPT ![c] = Returned(Null)]
                  /\ outcome' = [outcome EXCEPT ![c] = Returned(Null)]
                  /\ pc' = [pc EXCEPT ![c] = "done"]
             ELSE /\ pc' = [pc EXCEPT ![c] = "read"]
                  /\ UNCHANGED <<completion, outcome>>
          /\ UNCHANGED failed
       \/ /\ failed' = [failed EXCEPT ![c] = @ \cup {"stat"}]
          /\ completion' = [completion EXCEPT ![c] = Returned(Null)]
          /\ pc' = [pc EXCEPT ![c] = "close"]
          /\ UNCHANGED <<size, statMtime, outcome>>
    /\ UNCHANGED <<strVars, fileVars, fh, reads, closeCalls, hit>>

(* fileStat = await fh.stat(); if (size === 0) return null *)
Stat(c) ==
    /\ pc[c] = "stat"
    /\ \/ /\ size' = [size EXCEPT ![c] = Len(file)]
          /\ statMtime' = [statMtime EXCEPT ![c] = mtime]
          /\ IF Len(file) = 0
             THEN /\ completion' = [completion EXCEPT ![c] = Returned(Null)]
                  /\ pc' = [pc EXCEPT ![c] = "close"]
             ELSE /\ pc' = [pc EXCEPT ![c] = "read"]
                  /\ UNCHANGED completion
          /\ UNCHANGED failed
       \/ /\ failed' = [failed EXCEPT ![c] = @ \cup {"stat"}]
          /\ completion' = [completion EXCEPT ![c] = Returned(Null)]
          /\ pc' = [pc EXCEPT ![c] = "close"]
          /\ UNCHANGED <<size, statMtime>>
    /\ UNCHANGED <<strVars, fileVars, fh, reads, outcome, closeCalls, hit>>

(* await fh.read(buffer, 0, readSize, size - readSize), then the scan of   *)
(* the chunk up to the return; or read rejects and the catch returns null. *)
ReadAt(c, readSize, position) ==
    /\ reads' = [reads EXCEPT ![c] = Append(@, [length |-> readSize, position |-> position])]
    /\ \/ \E found \in {ScanChunk(Chunk(file, readSize, position))} :
             /\ completion' = [completion EXCEPT ![c] =
                                   Returned(Entry(found.lastType, statMtime[c]))]
             /\ hit' = [hit EXCEPT ![c] = found.at]
             /\ UNCHANGED failed
       \/ /\ failed' = [failed EXCEPT ![c] = @ \cup {"read"}]
          /\ completion' = [completion EXCEPT ![c] = Returned(Null)]
          /\ UNCHANGED hit

Read(c) ==
    /\ pc[c] = "read"
    /\ ReadAt(c, ReadSize(size[c]), ReadPosition(size[c]))
    /\ pc' = [pc EXCEPT ![c] = "close"]
    /\ UNCHANGED <<strVars, fileVars, fh, size, statMtime, outcome, closeCalls>>

(* finally { await fh?.close() }: the handle is given up, also when close  *)
(* reports an error (FileHandle.close forgets the descriptor before the    *)
(* close is performed); when close rejects, the rejection replaces the     *)
(* completion of the try/catch, as an exception in a finally block does.   *)
Close(c) ==
    /\ pc[c] = "close"
    /\ closeCalls' = [closeCalls EXCEPT ![c] = @ + 1]
    /\ fh' = [fh EXCEPT ![c] = "closed"]
    /\ \/ /\ outcome' = [outcome EXCEPT ![c] = completion[c]]
          /\ UNCHANGED failed
       \/ /\ failed' = [failed EXCEPT ![c] = @ \cup {"close"}]
          /\ outcome' = [outcome EXCEPT ![c] = Thrown]
    /\ pc' = [pc EXCEPT ![c] = "done"]
    /\ UNCHANGED <<strVars, fileVars, size, statMtime, reads, completion, hit>>

(* The writer: another process appends to the file, a record in two      *)
(* writes (the record without its closing brace, then the brace and the    *)
(* newline), and each write advances the mtime.                            *)
WriterPieces ==
    << <<"{", DQ, "t", "y", "p", "e", DQ, ":", DQ, "c", DQ>>, <<"}", NL>> >>

WriterAppend ==
    /\ mtime <= MaxAppends
    /\ file' = file \o WriterPieces[((mtime - 1) % 2) + 1]
    /\ mtime' = mtime + 1
    /\ UNCHANGED <<callVars, strVars>>

Next ==
    \/ \E c \in Calls : Open(c)
    \/ \E c \in Calls : Stat(c)
    \/ \E c \in Calls : Read(c)
    \/ \E c \in Calls : Close(c)
    \/ WriterAppend

----------------------------------------------------------------------------
(* The files a call starts on *)

RecA == <<"{", DQ, "t", "y", "p", "e", DQ, ":", DQ, "a", DQ, "}">>
RecB == <<"{", DQ, "t", "y", "p", "e", DQ, ":", DQ, "b", DQ, "}">>

FileLines ==
    { RecA,
      RecB,
      <<"{", DQ, "t", "y", "p", "e", DQ, ":", DQ, "b", DQ>>,          \* unterminated
      <<"{", DQ, "x", DQ, ":", "1", "}">>,                            \* no type
      <<"{", DQ, "t", "y", "p", "e", DQ, ":", "1", "}">>,             \* type is a number
      <<"[", DQ, "t", "y", "p", "e", DQ, "]">>,                       \* an array
      <<"n", "u", "l", "l">>,
      <<SP, TAB>>,                                                    \* blank
      <<SP>> \o RecB \o <<CR>>,                                       \* CRLF file
      <<"{", DQ, "x", DQ, ":", RecB[1]>> \o Tail(RecB) \o <<"}">>,     \* nested type
      <<"{", DQ, "t", "y", "p", "e", DQ, ":", DQ, "a", BS, DQ, DQ, ",", SP,
        DQ, "n", DQ, ":", "[", "1", ",", "t", "r", "u", "e", "]", "}">> }

MaxLines == 2

RECURSIVE Texts(_)
Texts(n) ==
    IF n = 0 THEN {<<>>}
    ELSE Texts(n - 1) \cup {l \o <<NL>> \o t : l \in FileLines, t \in Texts(n - 1)}

(* up to MaxLines lines, each ended by a newline, or the last one not *)
SmallFiles == Texts(MaxLines) \cup {SubSeq(t, 1, Len(t) - 1) : t \in Texts(MaxLines) \ {<<>>}}

Fill(ch, n) == [i \in 1..n |-> ch]

LongLine(kind, n) ==
    CASE kind = "garbage" -> Fill("x", n)
      [] kind = "blank" -> Fill(SP, n)
      [] kind = "record" ->
            <<"{", DQ, "t", "y", "p", "e", DQ, ":", DQ, "a", DQ, ",",
              DQ, "p", DQ, ":", DQ>> \o Fill("x", n) \o <<DQ, "}">>

(* pre, one long line, post: Len(pre) + d bytes precede the trailing       *)
(* TAIL_READ_BYTES bytes, so the window starts d bytes into the long line. *)
BigFile(pre, kind, post, d) ==
    pre \o LongLine(kind, TAIL_READ_BYTES + d - Len(LongLine(kind, 0)) - Len(post)) \o post

BigFiles ==
    { BigFile(pre, kind, post, d) :
        pre \in {<<>>, <<"x">>, RecB, RecB \o <<NL>>},
        kind \in {"garbage", "blank", "record"},
        post \in {<<>>, <<NL>>, <<NL, SP, NL>>, <<NL>> \o RecB \o <<NL>>},
        d \in (0 - MaxCut)..MaxCut }

InitCalls(active) ==
    /\ pc = [c \in Calls |-> IF c \in active THEN "open" ELSE "idle"]
    /\ fh = [c \in Calls |-> "none"]
    /\ size = [c \in Calls |-> 0]
    /\ statMtime = [c \in Calls |-> 0]
    /\ reads = [c \in Calls |-> <<>>]
    /\ completion = [c \in Calls |-> Pending]
    /\ outcome = [c \in Calls |-> Pending]
    /\ closeCalls = [c \in Calls |-> 0]
    /\ failed = [c \in Calls |-> {}]
    /\ hit = [c \in Calls |-> 0]

NoStrings == fn = "none" /\ arg = <<>> /\ label = <<>> /\ out = <<>>

(* Spec: one call of readLastJsonlEntry and the writer *)
Init ==
    /\ NoStrings
    /\ file \in SmallFiles \cup BigFiles
    /\ mtime = 1
    /\ InitCalls({1})

Spec == Init /\ [][Next]_vars

(* SpecConc: concurrent calls on the same file and the writer *)
ConcFiles ==
    { <<>>, RecA \o <<NL>> \o RecB \o <<NL>>, RecA \o <<NL, "x">>,
      BigFile(RecB \o <<NL>>, "record", <<>>, 0),
      BigFile(RecB, "garbage", <<NL>>, 0 - 1) }

InitConc ==
    /\ NoStrings
    /\ file \in ConcFiles
    /\ mtime = 1
    /\ InitCalls(Calls)

SpecConc == InitConc /\ [][Next]_vars

----------------------------------------------------------------------------
(* SpecStr: the synchronous functions applied to bounded inputs *)

Schemes ==
    { <<>>, Http, Https,
      <<"H", "T", "T", "P", ":", "/", "/">>,
      <<"H", "t", "t", "p", "s", ":", "/", "/">>,
      <<"h", "t", "t", "p", ":", "/">>,
      <<"h", "t", "t", "p", "s", "/", "/">>,
      <<"h", "t", "t", "p", "s", ":", "/">>,
      <<"f", "t", "p", ":", "/", "/">>,
      <<SP, "h", "t", "t", "p", ":", "/", "/">>,
      <<"x", "h", "t", "t", "p", "s", ":", "/", "/">> }

Urls == {p \o t : p \in Schemes, t \in StrsOf({"x", DQ}, MaxTail)}

Labels == {<<"P">>, <<"g", "h">>}

StrInputs == StrsOf(Alphabet, MaxLen) \cup Urls

InitStr ==
    /\ fn = "none"
    /\ arg \in StrInputs
    /\ label \in Labels
    /\ out = <<>>
    /\ file = <<>>
    /\ mtime = 1
    /\ InitCalls({})

CallShellEscape ==
    /\ fn = "none"
    /\ fn' = "shellEscape"
    /\ out' = shellEscape(arg)
    /\ UNCHANGED <<arg, label, fileVars, callVars>>

CallEscapeAppleScript ==
    /\ fn = "none"
    /\ fn' = "escapeAppleScript"
    /\ out' = escapeAppleScript(arg)
    /\ UNCHANGED <<arg, label, fileVars, callVars>>

CallValidateUrl ==
    /\ fn = "none"
    /\ fn' = "validateUrl"
    /\ out' = validateUrl(arg, label)
    /\ UNCHANGED <<arg, label, fileVars, callVars>>

NextStr == CallShellEscape \/ CallEscapeAppleScript \/ CallValidateUrl

SpecStr == InitStr /\ [][NextStr]_vars

----------------------------------------------------------------------------
(* C1: for every string s, shellEscape(s) begins and ends with a single    *)
(* quote and reads back, under the single-quote rules of a POSIX shell, as *)
(* exactly one token whose value is s; shellEscape("") is ''.              *)
C1_ShellRoundTrip ==
    fn = "shellEscape" =>
        /\ Len(out) >= 2 /\ out[1] = SQ /\ out[Len(out)] = SQ
        /\ ShellToken(out) = [ok |-> TRUE, val |-> arg]
        /\ (arg = <<>> => out = <<SQ, SQ>>)

C1_Witness ==
    fn = "shellEscape" /\ arg = <<SQ, BS, NL>> /\ ShellToken(out).val = arg

(* C2: escapeAppleScript(s) between two double quotes is read back by the  *)
(* AppleScript literal rules as exactly s, the literal ending at the       *)
(* closing quote and not before.                                           *)
C2_AppleScriptRoundTrip ==
    fn = "escapeAppleScript" =>
        LET lit == <<DQ>> \o out \o <<DQ>>
        IN  AppleScriptLiteral(lit) = [end |-> Len(lit), val |-> arg]

C2_Witness ==
    fn = "escapeAppleScript" /\ arg = <<BS, DQ, "n">>
    /\ out = <<BS, BS, BS, DQ, "n">>

(* C8: validateUrl returns normally exactly when url begins with the       *)
(* lowercase http:// or https://; otherwise it throws an error whose       *)
(* message contains label and url verbatim.                                *)
LowercaseHttpPrefix(u) ==
    \/ Len(u) >= 7 /\ \A i \in 1..7 : u[i] = Http[i]
    \/ Len(u) >= 8 /\ \A i \in 1..8 : u[i] = Https[i]

C8_ValidateUrl ==
    fn = "validateUrl" =>
        /\ ~out.threw <=> LowercaseHttpPrefix(arg)
        /\ out.threw => Contains(out.message, label) /\ Contains(out.message, arg)

C8_Witness ==
    fn = "validateUrl" /\ out.threw /\ arg = <<"f", "t", "p", ":", "/", "/", "x">>
    /\ label = <<"P">>

C8_WitnessAccept ==
    fn = "validateUrl" /\ ~out.threw /\ arg = Http \o <<"x">>

----------------------------------------------------------------------------
(* Vocabulary of the tail reader's properties *)

Done(c) == pc[c] = "done"
Succeeded(c, op) == op \notin failed[c]

(* the call got past stat with a non-empty file and its read succeeded *)
ReadTheWindow(c) ==
    /\ Done(c)
    /\ Succeeded(c, "open") /\ Succeeded(c, "stat") /\ Succeeded(c, "read")
    /\ size[c] > 0

(* the trailing min(4096, size) bytes of the first size bytes of the file *)
WindowSize(c) == IF size[c] < 4096 THEN size[c] ELSE 4096
Window(c) == SubSeq(file, size[c] - WindowSize(c) + 1, size[c])

(* a line that, trimmed, parses as a non-null, non-array object whose type *)
(* is a string; and the type it carries                                    *)
Qualifies(line) == HasStringType(JsonParse(Trim(line)))
TypeOfLine(line) == JsonParse(Trim(line)).val.t

QualifyingIn(lines) == {i \in 1..Len(lines) : Qualifies(lines[i])}

LastQualifyingType(lines) ==
    IF QualifyingIn(lines) = {} THEN NoType
    ELSE TypeOfLine(lines[CHOOSE i \in QualifyingIn(lines) :
                                \A k \in QualifyingIn(lines) : k <= i])

TypeA == StrType(<<"a">>)
TypeB == StrType(<<"b">>)

(* C3: when open, stat and read succeed and the size is non-zero, the call *)
(* returns { lastType, modifiedAt } with the stat'd mtime and the type of  *)
(* the last line of the window that qualifies, null when none does.        *)
C3_LastQualifyingLine ==
    \A c \in Calls :
        ReadTheWindow(c) =>
            outcome[c] = Returned(Entry(LastQualifyingType(Split(Window(c))), statMtime[c]))

(* the same, for the calls whose fh.close() resolved *)
C3_WhenCloseResolves ==
    \A c \in Calls :
        ReadTheWindow(c) /\ Succeeded(c, "close") =>
            outcome[c] = Returned(Entry(LastQualifyingType(Split(Window(c))), statMtime[c]))

(* the unterminated trailing record is skipped, the record before it found *)
C3_WitnessUnterminated ==
    /\ ReadTheWindow(1) /\ Succeeded(1, "close")
    /\ SubSeq(file, 1, size[1]) = RecA \o <<NL>> \o SubSeq(RecB, 1, 11)
    /\ outcome[1] = Returned(Entry(TypeA, statMtime[1]))

(* the only records with a type lie before the window *)
C3_WitnessOutOfWindow ==
    /\ ReadTheWindow(1) /\ Succeeded(1, "close")
    /\ size[1] > 4096
    /\ SubSeq(file, 1, 12) = RecB
    /\ outcome[1] = Returned(Entry(NoType, statMtime[1]))

(* C4: the call returns null whenever open fails, stat fails or the stat'd *)
(* size is 0, and issues no read in these cases; a non-null result is      *)
(* returned only when the stat'd size is greater than 0.                   *)
Unavailable(c) ==
    \/ ~Succeeded(c, "open")
    \/ ~Succeeded(c, "stat")
    \/ size[c] = 0

C4_AbsenceWhenUnavailable ==
    \A c \in Calls :
        Done(c) =>
            /\ Unavailable(c) => outcome[c] = Returned(Null) /\ reads[c] = <<>>
            /\ (outcome[c].kind = "return" /\ ~outcome[c].value.isNull) => size[c] > 0

C4_WhenCloseResolves ==
    \A c \in Calls :
        Done(c) /\ Succeeded(c, "close") =>
            /\ Unavailable(c) => outcome[c] = Returned(Null) /\ reads[c] = <<>>
            /\ (outcome[c].kind = "return" /\ ~outcome[c].value.isNull) => size[c] > 0

(* C5: when open succeeded the handle is closed exactly once before the    *)
(* call completes, on every exit path; when open failed no close is        *)
(* attempted; no call ends with a handle still open.                       *)
C5_HandleClosedOnce ==
    \A c \in Calls :
        /\ closeCalls[c] <= 1
        /\ fh[c] = "open" => pc[c] \in {"stat", "read", "close"}
        /\ Done(c) => IF Succeeded(c, "open")
                      THEN closeCalls[c] = 1 /\ fh[c] = "closed"
                      ELSE closeCalls[c] = 0 /\ fh[c] = "none"

(* the size-0 early return *)
C5_Witness ==
    /\ Done(1) /\ Succeeded(1, "open") /\ Succeeded(1, "stat")
    /\ size[1] = 0 /\ closeCalls[1] = 1 /\ fh[1] = "closed"

(* the return from inside the scan; a failed read *)
C5_WitnessScanReturn == Done(1) /\ hit[1] > 0 /\ closeCalls[1] = 1
C5_WitnessReadFailed == Done(1) /\ ~Succeeded(1, "read") /\ closeCalls[1] = 1

(* C6: a call issues at most one read, of exactly min(4096, size) bytes at *)
(* offset size - min(4096, size): never a negative offset, never past      *)
(* offset size, never more than 4096 bytes.                                *)
C6_BoundedRead ==
    \A c \in Calls :
        /\ Len(reads[c]) <= 1
        /\ \A k \in 1..Len(reads[c]) :
              /\ reads[c][k].length = (IF size[c] < 4096 THEN size[c] ELSE 4096)
              /\ reads[c][k].position = size[c] - reads[c][k].length
              /\ reads[c][k].position >= 0
              /\ reads[c][k].position + reads[c][k].length <= size[c]
              /\ reads[c][k].length <= 4096

C6_Witness ==
    /\ size[1] > 4096
    /\ reads[1] = <<[length |-> 4096, position |-> size[1] - 4096]>>

(* C7: with the writer's appends interleaved anywhere, a call's result is  *)
(* the backward scan over the trailing min(4096, size) bytes of the first  *)
(* size bytes of the file, with the size and mtime its own stat observed,  *)
(* whatever was appended since and whatever the other calls do.            *)
C7_SnapshotAtStat ==
    \A c \in Calls :
        ReadTheWindow(c) =>
            outcome[c] = Returned(Entry(ScanChunk(Window(c)).lastType, statMtime[c]))

C7_WhenCloseResolves ==
    \A c \in Calls :
        ReadTheWindow(c) /\ Succeeded(c, "close") =>
            outcome[c] = Returned(Entry(ScanChunk(Window(c)).lastType, statMtime[c]))

(* two calls on the same file, an append between their stats *)
C7_WitnessTwoSnapshots ==
    /\ ReadTheWindow(1) /\ ReadTheWindow(2)
    /\ Succeeded(1, "close") /\ Succeeded(2, "close")
    /\ size[1] < size[2]
    /\ outcome[1].value.lastType = TypeB
    /\ outcome[2].value.lastType = StrType(<<"c">>)

(* C9: the call never rejects: whatever open, stat, read and close do, it  *)
(* settles with a result or with null, and with null when any of them      *)
(* failed.                                                                 *)
C9_NeverThrows ==
    \A c \in Calls :
        /\ outcome[c].kind # "throw"
        /\ (Done(c) /\ failed[c] # {}) => outcome[c] = Returned(Null)

C9_WhenCloseResolves ==
    \A c \in Calls :
        Succeeded(c, "close") =>
            /\ outcome[c].kind # "throw"
            /\ (Done(c) /\ failed[c] # {}) => outcome[c] = Returned(Null)

(* C10 as stated: when the stat'd size is greater than 4096, the lastType  *)
(* returned is never taken from the first line of the window.              *)
C10_FirstLineNeverUsed ==
    \A c \in Calls :
        (ReadTheWindow(c) /\ size[c] > 4096) => hit[c] # 1

(* C10 as amended: when the stat'd size is greater than 4096, the lastType *)
(* returned is taken from the first line of the window exactly when that   *)
(* line qualifies and no later line of the window does; the first line is  *)
(* skipped only for what any line is skipped for.                          *)
C10_FirstLineLikeAnyOther ==
    \A c \in Calls :
        (ReadTheWindow(c) /\ size[c] > 4096) =>
            (hit[c] = 1 <=> QualifyingIn(Split(Window(c))) = {1})

(* the window starts on a line boundary and holds one whole record *)
C10_Witness ==
    /\ ReadTheWindow(1) /\ Succeeded(1, "close")
    /\ size[1] > 4096
    /\ SubSeq(file, 1, 13) = RecB \o <<NL>>
    /\ Window(1)[1] = "{"
    /\ hit[1] = 1
    /\ outcome[1] = Returned(Entry(TypeA, statMtime[1]))

(* the window starts inside the line: the fragment is skipped *)
C10_WitnessFragmentSkipped ==
    /\ ReadTheWindow(1) /\ size[1] > 4096
    /\ Window(1)[1] = DQ
    /\ hit[1] = 0

====
